---------------------------- MODULE Spec2Model ----------------------------
(***************************************************************************)
(* A model of the statement-import pipeline of PersonalFinancesTracker:    *)
(* import_statement (utils/data_import.py), categorize_transactions,       *)
(* map_original_category and normalize_transaction_signs                   *)
(* (utils/categorization.py).                                              *)
(*                                                                         *)
(* Text is modelled by TLA+ strings, read character by character with      *)
(* SubSeq; a pandas null (None / NaN) is the value None below.             *)
(***************************************************************************)
EXTENDS Integers, Sequences, FiniteSets, TLC

(***************************************************************************)
(* Python text primitives: str.lower, the "in" operator on strings, and    *)
(* re.search(r'\b' + re.escape(keyword) + r'\b', text).                    *)
(***************************************************************************)
\* pandas' null (None, NaN): pd.isna / pd.notna test for it.
None == "<None>"

isna(v) == v = None

notna(v) == v # None

UpperCase == "ABCDEFGHIJKLMNOPQRSTUVWXYZ"

LowerCase == "abcdefghijklmnopqrstuvwxyz"

Digits == "0123456789"

CharAt(s, i) == SubSeq(s, i, i)

\* The characters \w matches (ASCII part): letters, digits and underscore.
WordChars ==
  {CharAt(UpperCase, i) : i \in 1..Len(UpperCase)}
    \cup {CharAt(LowerCase, i) : i \in 1..Len(LowerCase)}
    \cup {CharAt(Digits, i) : i \in 1..Len(Digits)}
    \cup {"_"}

LowerChar(c) ==
  IF \E i \in 1..Len(UpperCase) : CharAt(UpperCase, i) = c
    THEN CharAt(LowerCase, CHOOSE i \in 1..Len(UpperCase) : CharAt(UpperCase, i) = c)
    ELSE c

RECURSIVE lower(_)
\* str.lower()
lower(s) == IF s = "" THEN "" ELSE LowerChar(Head(s)) \o lower(Tail(s))

\* sub in text
contains(text, sub) ==
  \E i \in 1..(Len(text) - Len(sub) + 1) : SubSeq(text, i, i + Len(sub) - 1) = sub

\* Whether position i of text holds a word character; positions outside the
\* text hold none.
IsWordAt(text, i) == i >= 1 /\ i <= Len(text) /\ CharAt(text, i) \in WordChars

\* The regular expression \b between positions p and p+1 of text.
word_boundary(text, p) == IsWordAt(text, p) # IsWordAt(text, p + 1)

\* As re_search_word, the pattern written without its two \b.
re_search_plain(keyword, text) == contains(text, keyword)

\* re.search(r'\b' + re.escape(keyword) + r'\b', text) finds a match.
re_search_word(keyword, text) ==
  \E i \in 1..(Len(text) - Len(keyword) + 1) :
    /\ SubSeq(text, i, i + Len(keyword) - 1) = keyword
    /\ word_boundary(text, i - 1)
    /\ word_boundary(text, i + Len(keyword) - 1)

(***************************************************************************)
(* utils/categorization.py                                                 *)
(***************************************************************************)
\* The keyword table of categorize_transactions, in the dict's order.
categories ==
  << [category |-> "Groceries",
      keywords |-> << "trader", "safeway", "grocery", "market", "food", "whole foods", "albertsons", "kroger", "publix", "aldi" >>],
     [category |-> "Dining",
      keywords |-> << "restaurant", "mcdonalds", "starbucks", "coffee", "doordash", "grubhub", "uber eats", "chipotle", "wendys", "burger", "pizza", "taco", "cafe" >>],
     [category |-> "Transportation",
      keywords |-> << "uber", "lyft", "gas", "shell", "chevron", "transit", "parking", "exxon", "mobil", "bp", "valero", "toll", "auto", "car" >>],
     [category |-> "Shopping",
      keywords |-> << "amazon", "target", "walmart", "bestbuy", "ebay", "etsy", "costco", "sams club", "macys", "nordstrom", "tj maxx", "marshalls", "kohls" >>],
     [category |-> "Entertainment",
      keywords |-> << "netflix", "hbo", "spotify", "movie", "hulu", "disney", "theatre", "theater", "cinema", "apple music", "prime video", "youtube", "games" >>],
     [category |-> "Housing",
      keywords |-> << "rent", "mortgage", "hoa", "maintenance", "apartment", "property", "lease", "landlord", "home", "house" >>],
     [category |-> "Utilities",
      keywords |-> << "electric", "water", "gas", "internet", "phone", "utility", "bill", "power", "cable", "comcast", "verizon", "at&t", "sprint", "sewer" >>],
     [category |-> "Health",
      keywords |-> << "doctor", "pharmacy", "medical", "fitness", "gym", "health", "dental", "vision", "cvs", "walgreens", "hospital", "clinic", "insurance" >>],
     [category |-> "Insurance",
      keywords |-> << "insurance", "geico", "allstate", "state farm", "progressive", "nationwide", "liberty mutual", "farmers", "policy" >>],
     [category |-> "Education",
      keywords |-> << "tuition", "course", "book", "school", "university", "college", "student", "loan", "class", "education", "learning" >>],
     [category |-> "Income",
      keywords |-> << "payroll", "salary", "deposit", "dividend", "direct deposit", "payment received", "interest", "refund", "tax return" >>],
     [category |-> "Investments",
      keywords |-> << "investment", "transfer to", "schwab", "fidelity", "vanguard", "etrade", "robinhood", "stocks", "bonds", "mutual fund", "retirement" >>],
     [category |-> "Subscriptions",
      keywords |-> << "subscription", "membership", "monthly", "annual fee", "renewal", "recurring" >>],
     [category |-> "Travel",
      keywords |-> << "hotel", "flight", "airbnb", "airline", "expedia", "booking.com", "airfare", "vacation", "travel", "resort", "cruise", "tour", "trip" >>],
     [category |-> "Personal Care",
      keywords |-> << "salon", "haircut", "spa", "beauty", "cosmetics", "barber", "stylist", "nail", "massage" >>],
     [category |-> "Gifts & Donations",
      keywords |-> << "gift", "donation", "charity", "donate", "present", "gofundme", "fundraiser", "patreon", "kickstarter" >>],
     [category |-> "Fees & Charges",
      keywords |-> << "fee", "charge", "interest", "overdraft", "penalty", "late", "service charge", "atm fee", "bank fee" >>] >>

RECURSIVE get_category_from(_, _)
\* The loop of get_category over categories.items(), from entry i on.
get_category_from(description, i) ==
  IF i > Len(categories) THEN "Miscellaneous"
  ELSE IF \E k \in 1..Len(categories[i].keywords) :
            re_search_word(categories[i].keywords[k], description)
       THEN categories[i].category
       ELSE get_category_from(description, i + 1)

\* As get_category, testing pd.isna(description) alone.
get_category_isna_only(description) ==
  IF isna(description) THEN "Uncategorized"
  ELSE get_category_from(lower(description), 1)

get_category(description) ==
  IF description = "" \/ isna(description) THEN "Uncategorized"
  ELSE get_category_from(lower(description), 1)

\* The bank-category table of map_original_category as (key, value) pairs in
\* the dict's order (a key written twice keeps its first place).
mapping ==
  << <<"Food & Drink", "Dining">>,
     <<"Groceries", "Groceries">>,
     <<"Travel", "Travel">>,
     <<"Shopping", "Shopping">>,
     <<"Bills & Utilities", "Utilities">>,
     <<"Health & Wellness", "Health">>,
     <<"Entertainment", "Entertainment">>,
     <<"Gas", "Transportation">>,
     <<"Home", "Housing">>,
     <<"Education", "Education">>,
     <<"Personal", "Personal Care">>,
     <<"Gifts & Donations", "Gifts & Donations">>,
     <<"Business Services", "Miscellaneous">>,
     <<"Dining", "Dining">>,
     <<"Grocery", "Groceries">>,
     <<"Travel & Entertainment", "Entertainment">>,
     <<"Household Expenses", "Housing">>,
     <<"Auto & Transport", "Transportation">>,
     <<"Subscriptions", "Subscriptions">>,
     <<"Income & Transfers", "Income">>,
     <<"Dining Out", "Dining">>,
     <<"Groceries/Supermarkets", "Groceries">>,
     <<"Transportation", "Transportation">>,
     <<"Shopping/Retail", "Shopping">>,
     <<"Home/Rent", "Housing">>,
     <<"Utilities", "Utilities">>,
     <<"Health/Medical", "Health">>,
     <<"Insurance", "Insurance">>,
     <<"Education/School", "Education">>,
     <<"Income", "Income">>,
     <<"Investments", "Investments">>,
     <<"Travel/Vacation", "Travel">> >>

RECURSIVE partial_match_case_sensitive(_, _)
\* As partial_match_from, without the two .lower() calls.
partial_match_case_sensitive(original, i) ==
  IF i > Len(mapping) THEN "Miscellaneous"
  ELSE IF contains(original, mapping[i][1])
       THEN mapping[i][2]
       ELSE partial_match_case_sensitive(original, i + 1)

RECURSIVE partial_match_from(_, _)
\* The loop of map_original_category over mapping.items(), from entry i on.
partial_match_from(original, i) ==
  IF i > Len(mapping) THEN "Miscellaneous"
  ELSE IF contains(lower(original), lower(mapping[i][1]))
       THEN mapping[i][2]
       ELSE partial_match_from(original, i + 1)

\* As map_original_category, a text no key matches being returned as it is.
map_original_category_unmapped(original) ==
  IF isna(original) THEN "Uncategorized"
  ELSE IF \E i \in 1..Len(mapping) : mapping[i][1] = original
       THEN mapping[CHOOSE i \in 1..Len(mapping) : mapping[i][1] = original][2]
       ELSE IF \E i \in 1..Len(mapping) : contains(lower(original), lower(mapping[i][1]))
            THEN partial_match_from(original, 1)
            ELSE original

map_original_category(original) ==
  IF isna(original) THEN "Uncategorized"
  ELSE IF \E i \in 1..Len(mapping) : mapping[i][1] = original
       THEN mapping[CHOOSE i \in 1..Len(mapping) : mapping[i][1] = original][2]
       ELSE partial_match_from(original, 1)

\* As apply_with_original, a row without original_category being matched by
\* keyword whether or not it has a category.
apply_with_original_rematch(row) ==
  IF notna(row.original_category)
    THEN map_original_category(row.original_category)
    ELSE get_category(row.description)

\* One row of df.apply in the branch taken when some row of the frame has an
\* original_category (lines 52-57).
apply_with_original(row) ==
  IF notna(row.original_category)
    THEN map_original_category(row.original_category)
    ELSE IF notna(row.category) THEN row.category
                                ELSE get_category(row.description)

\* As apply_keyword, reading the category column where original_category
\* was meant: a category already set is translated like a bank category.
apply_keyword_translating(row) ==
  IF notna(row.category) THEN map_original_category(row.category)
                         ELSE get_category(row.description)

\* As apply_keyword, without the test for a category already set.
apply_keyword_always(row) == get_category(row.description)

\* One row of df.apply in the branch taken otherwise (lines 60-63).
apply_keyword(row) ==
  IF notna(row.category) THEN row.category ELSE get_category(row.description)

\* df is a sequence of rows; only the category column is assigned.
categorize_transactions(df) ==
  IF \E i \in DOMAIN df : notna(df[i].original_category)
    THEN [i \in DOMAIN df |-> [df[i] EXCEPT !.category = apply_with_original(df[i])]]
    ELSE [i \in DOMAIN df |-> [df[i] EXCEPT !.category = apply_keyword(df[i])]]

standard_categories ==
  { "Groceries", "Dining", "Transportation", "Shopping", "Entertainment",
    "Housing", "Utilities", "Health", "Insurance", "Education",
    "Income", "Investments", "Subscriptions", "Travel", "Personal Care",
    "Gifts & Donations", "Fees & Charges", "Miscellaneous", "Uncategorized" }

\* The characters of the model's texts in code-point order.
code_points ==
  " !#$%&'()*+,-./0123456789:;<=>?@ABCDEFGHIJKLMNOPQRSTUVWXYZ[]^_abcdefghijklmnopqrstuvwxyz{|}~"

\* The place of a character in code_points.
ord(c) == CHOOSE k \in 1..Len(code_points) : CharAt(code_points, k) = c

RECURSIVE str_lt(_, _)
\* a < b for two str: the first character that differs decides, a proper
\* prefix comes first.
str_lt(a, b) ==
  IF b = "" THEN FALSE
  ELSE IF a = "" THEN TRUE
  ELSE IF CharAt(a, 1) = CharAt(b, 1)
         THEN str_lt(SubSeq(a, 2, Len(a)), SubSeq(b, 2, Len(b)))
         ELSE ord(CharAt(a, 1)) < ord(CharAt(b, 1))

RECURSIVE sorted(_)
\* list.sort() of distinct names.
sorted(names) ==
  IF names = {} THEN <<>>
  ELSE LET first == CHOOSE x \in names : \A y \in names \ {x} : str_lt(x, y)
       IN  <<first>> \o sorted(names \ {first})

\* As get_category_list, the custom names put after the standard ones.
get_category_list_extended(custom) == sorted(standard_categories) \o sorted(custom)

\* get_category_list(db_path), given the names get_custom_categories
\* returns: list(set(standard_categories + custom_categories)), sorted.
get_category_list(custom) == sorted(standard_categories \cup custom)

RECURSIVE lstrip(_)
\* The text without its leading blanks.
lstrip(s) ==
  IF s # "" /\ CharAt(s, 1) = " " THEN lstrip(SubSeq(s, 2, Len(s))) ELSE s

RECURSIVE rstrip(_)
\* The text without its trailing blanks.
rstrip(s) ==
  IF s # "" /\ CharAt(s, Len(s)) = " " THEN rstrip(SubSeq(s, 1, Len(s) - 1)) ELSE s

\* str.strip()
strip(s) == rstrip(lstrip(s))

\* As add_custom_category_to, the name stored as it is given.
add_custom_category_unstripped(table, category_name) ==
  IF category_name = "" \/ Len(strip(category_name)) = 0
    THEN [custom_categories |-> table, returned |-> FALSE]
    ELSE [custom_categories |-> table \cup {category_name},
          returned |-> category_name \notin table]

\* add_custom_category(category_name, db_path), given the names of table
\* custom_categories (category_name TEXT UNIQUE): an empty or blank name is
\* refused, else INSERT OR IGNORE of the stripped name, and True when a row
\* was inserted (cursor.rowcount > 0).
add_custom_category_to(table, category_name) ==
  IF category_name = "" \/ Len(strip(category_name)) = 0
    THEN [custom_categories |-> table, returned |-> FALSE]
    ELSE [custom_categories |-> table \cup {strip(category_name)},
          returned |-> strip(category_name) \notin table]

\* delete_custom_category(category_name, db_path): DELETE of the rows with
\* exactly that name; True whether or not there was one.
delete_custom_category_from(table, category_name) ==
  [custom_categories |-> table \ {category_name}, returned |-> TRUE]

get_income_categories == {"Income", "Investments", "Refund"}

abs(n) == IF n < 0 THEN -n ELSE n

\* As apply_sign, an expense keeping the sign it came with.
apply_sign_expense_kept(row) ==
  IF row.amount = 0 THEN row.amount
  ELSE IF row.category \in get_income_categories THEN abs(row.amount)
       ELSE row.amount

\* As apply_sign, the amount of an income row left as it arrives.
apply_sign_income_kept(row) ==
  IF row.amount = 0 THEN row.amount
  ELSE IF row.category \in get_income_categories THEN row.amount
       ELSE -abs(row.amount)

apply_sign(row) ==
  IF row.amount = 0 THEN row.amount
  ELSE IF row.category \in get_income_categories THEN abs(row.amount)
       ELSE -abs(row.amount)

normalize_transaction_signs(df) ==
  [i \in DOMAIN df |-> [df[i] EXCEPT !.amount = apply_sign(df[i])]]

(***************************************************************************)
(* utils/data_import.py                                                    *)
(*                                                                         *)
(* A statement file is [name, columns, rows]: its path, the set of its     *)
(* header names, and its data rows, each a function from header to cell.   *)
(* For a PDF the table is what the extraction chain returns.               *)
(***************************************************************************)
RECURSIVE LastIndexOf(_, _, _)
\* str.rfind(ch) over the first n characters of s, 1-based; 0 when absent.
LastIndexOf(s, ch, n) ==
  IF n = 0 THEN 0
  ELSE IF CharAt(s, n) = ch THEN n ELSE LastIndexOf(s, ch, n - 1)

\* os.path.splitext(path)[1]: from the last dot of the last path component,
\* unless only dots precede it there.
splitext(path) ==
  LET sep == LastIndexOf(path, "/", Len(path))
      dot == LastIndexOf(path, ".", Len(path))
  IN  IF dot > sep /\ (\E i \in (sep + 1)..(dot - 1) : CharAt(path, i) # ".")
        THEN SubSeq(path, dot, Len(path))
        ELSE ""

detect_file_type(filepath) ==
  LET ext == splitext(lower(filepath))
  IN  IF ext = ".csv" THEN "csv"
      ELSE IF ext = ".pdf" THEN "pdf"
      ELSE "unknown"

KnownSources == {"wells_fargo", "chase", "bank_of_america", "apple_pay", "schwab"}

\* As rename_columns, Bank of America's date column looked up as 'Date'.
rename_columns_boa_date(source) ==
  CASE source \in {"wells_fargo", "schwab", "bank_of_america"} ->
         ("Date" :> "date")
           @@ (IF source = "bank_of_america" THEN "Payee" ELSE "Description") :> "description"
           @@ ("Amount" :> "amount")
    [] source = "chase" ->
         ("Transaction Date" :> "date") @@ ("Post Date" :> "post_date")
           @@ ("Description" :> "description") @@ ("Amount" :> "amount")
           @@ ("Category" :> "original_category")
    [] source = "apple_pay" ->
         ("Date" :> "date") @@ ("Description" :> "description") @@ ("Amount (USD)" :> "amount")

\* The columns= argument of df.rename for each source.
rename_columns(source) ==
  CASE source = "wells_fargo" ->
         ("Date" :> "date") @@ ("Description" :> "description") @@ ("Amount" :> "amount")
    [] source = "chase" ->
         ("Transaction Date" :> "date") @@ ("Post Date" :> "post_date")
           @@ ("Description" :> "description") @@ ("Amount" :> "amount")
           @@ ("Category" :> "original_category")
    [] source = "bank_of_america" ->
         ("Posted Date" :> "date") @@ ("Payee" :> "description") @@ ("Amount" :> "amount")
    [] source = "apple_pay" ->
         ("Date" :> "date") @@ ("Description" :> "description") @@ ("Amount (USD)" :> "amount")
    [] source = "schwab" ->
         ("Date" :> "date") @@ ("Description" :> "description") @@ ("Amount" :> "amount")

\* As flips_sign, Wells Fargo left out.
flips_sign_chase_only(source) == source = "chase"

\* The sources whose amounts import_statement negates (line 83).
flips_sign(source) == source \in {"chase", "wells_fargo"}

\* The name a column of the file carries after df.rename.
renamed(mapper, c) == IF c \in DOMAIN mapper THEN mapper[c] ELSE c

\* The table extract_tables_from_pdf returns: the extraction itself
\* (pdfplumber, tabula, regular expressions over the text) is not modelled,
\* its result is the table the file record carries; it is returned only when
\* it has the date, description and amount columns, and is empty otherwise.
extract_tables_from_pdf(file, source) ==
  IF file.rows # <<>> /\ {"date", "description", "amount"} \subseteq file.columns
    THEN [columns |-> file.columns, rows |-> file.rows]
    ELSE [columns |-> {}, rows |-> <<>>]

IsDigit(c) == \E i \in 1..Len(Digits) : CharAt(Digits, i) = c

DigitValue(c) == (CHOOSE i \in 1..Len(Digits) : CharAt(Digits, i) = c) - 1

RECURSIVE Number(_)
\* int(s) of a string of digits.
Number(s) ==
  IF s = "" THEN 0
  ELSE 10 * Number(SubSeq(s, 1, Len(s) - 1)) + DigitValue(CharAt(s, Len(s)))

\* The days of a month of the calendar.
DaysInMonth(year, month) ==
  IF month = 2
    THEN IF year % 4 = 0 /\ (year % 100 # 0 \/ year % 400 = 0) THEN 29 ELSE 28
    ELSE IF month \in {4, 6, 9, 11} THEN 30 ELSE 31

\* Whether pd.to_datetime parses the cell. Of the formats pandas reads the
\* model knows YYYY-MM-DD; a null cell parses (to NaT).
date_parses(cell) ==
  \/ isna(cell)
  \/ /\ Len(cell) = 10
     /\ CharAt(cell, 5) = "-" /\ CharAt(cell, 8) = "-"
     /\ \A i \in {1, 2, 3, 4, 6, 7, 9, 10} : IsDigit(CharAt(cell, i))
     /\ Number(SubSeq(cell, 6, 7)) \in 1..12
     /\ Number(SubSeq(cell, 9, 10))
          \in 1..DaysInMonth(Number(SubSeq(cell, 1, 4)), Number(SubSeq(cell, 6, 7)))

to_datetime(cell) ==
  IF isna(cell) THEN None
  ELSE [year |-> Number(SubSeq(cell, 1, 4)),
        month |-> Number(SubSeq(cell, 6, 7)),
        day |-> Number(SubSeq(cell, 9, 10))]

\* As Failure, the message of the exception caught left out of the one raised.
Failure_unnamed(message) == [ok |-> FALSE, df |-> <<>>, error |-> "Error importing file"]

Failure(message) == [ok |-> FALSE, df |-> <<>>, error |-> "Error importing file: " \o message]

\* import_statement(filepath, source): [ok |-> TRUE, df |-> the frame] or
\* [ok |-> FALSE, error |-> the message of the exception raised].
import_statement(file, source) ==
  LET file_type == detect_file_type(file.name)
      mapper == IF file_type = "csv" THEN rename_columns(source) ELSE <<>>
      table == IF file_type = "csv" THEN [columns |-> file.columns, rows |-> file.rows]
                                    ELSE extract_tables_from_pdf(file, source)
      columns == {renamed(mapper, c) : c \in table.columns}
      \* the cell of row i in the column named k after the renaming
      cell(i, k) == table.rows[i][CHOOSE c \in table.columns : renamed(mapper, c) = k]
      optional(i, k) == IF k \in columns THEN cell(i, k) ELSE None
      flipped == flips_sign(source)
  IN  IF file_type = "csv" /\ source \notin KnownSources
        THEN Failure("Unsupported source: " \o source)
      ELSE IF file_type = "pdf" /\ table.rows = <<>>
        THEN Failure("Could not extract transactions from the PDF file for " \o source)
      ELSE IF file_type \notin {"csv", "pdf"}
        THEN Failure("Unsupported file format: " \o file_type \o ". Please use CSV or PDF.")
      ELSE IF "date" \notin columns
        THEN Failure("'date'")
      ELSE IF \E i \in DOMAIN table.rows : ~date_parses(cell(i, "date"))
        THEN Failure("Unknown datetime string format")
      ELSE IF flipped /\ "amount" \notin columns
        THEN Failure("'amount'")
      ELSE IF "amount" \notin columns /\ table.rows # <<>>
        \* the column is filled with None and float('None') fails
        THEN Failure("could not convert string to float: 'None'")
      ELSE [ok |-> TRUE,
            error |-> "",
            df |-> [i \in DOMAIN table.rows |->
                     [date |-> to_datetime(cell(i, "date")),
                      description |-> optional(i, "description"),
                      amount |-> IF flipped THEN -cell(i, "amount") ELSE cell(i, "amount"),
                      source |-> source,
                      category |-> optional(i, "category"),
                      original_category |-> optional(i, "original_category")]]]

\* The parameters of import_statement (line 11).
import_statement_parameters == {"filepath", "source"}

\* import_statement(filepath, source, keyword=...): a keyword the signature
\* lacks raises TypeError at the call.
call_import_statement(file, source, keyword) ==
  IF keyword \notin import_statement_parameters
    THEN [ok |-> FALSE, df |-> <<>>,
          error |-> "import_statement() got an unexpected keyword argument '"
                      \o keyword \o "'"]
    ELSE import_statement(file, source)

RECURSIVE join(_, _)
\* sep.join(words)
join(sep, words) ==
  IF words = <<>> THEN ""
  ELSE IF Len(words) = 1 THEN words[1]
  ELSE words[1] \o sep \o join(sep, Tail(words))

\* The source the CSV branch returns for the lower-cased, space-joined
\* header, its rules in the order of the if/elif chain.
detect_csv_source(header_str) ==
  IF \/ contains(header_str, "wells")
     \/ /\ contains(header_str, "date") /\ contains(header_str, "description")
        /\ contains(header_str, "wells fargo")
    THEN "wells_fargo"
  ELSE IF contains(header_str, "transaction date") /\ contains(header_str, "post date")
    THEN "chase"
  ELSE IF contains(header_str, "posted date") /\ contains(header_str, "payee")
    THEN "bank_of_america"
  ELSE IF contains(header_str, "apple") \/ contains(header_str, "apple pay")
    THEN "apple_pay"
  ELSE IF \/ contains(header_str, "schwab")
          \/ /\ contains(header_str, "date") /\ contains(header_str, "description")
             /\ contains(header_str, "schwab")
    THEN "schwab"
  ELSE None

\* The source the PDF branch returns for the lower-cased text of the first
\* pages.
detect_pdf_source(text) ==
  IF contains(text, "wells fargo") THEN "wells_fargo"
  ELSE IF contains(text, "chase") THEN "chase"
  ELSE IF contains(text, "bank of america") THEN "bank_of_america"
  ELSE IF contains(text, "apple") \/ contains(text, "apple pay") THEN "apple_pay"
  ELSE IF contains(text, "schwab") THEN "schwab"
  ELSE None

\* As detect_source_from_header, a file without a match given the first
\* entry of the source list instead of None.
detect_source_first_option(file) ==
  LET file_type == detect_file_type(file.name)
      found == IF file_type = "csv" /\ file.readable
                 THEN detect_csv_source(lower(join(" ", file.header)))
               ELSE IF file_type = "pdf" /\ file.text # None
                 THEN detect_pdf_source(lower(file.text))
               ELSE None
  IN  IF found = None THEN "wells_fargo" ELSE found

\* detect_source_from_header(filepath). file.readable is whether pd.read_csv
\* reads the header, file.header the header it reads; file.text is the text
\* PyPDF2 or pdfplumber extract from the first pages, None when both fail.
\* Every exception ends in one of the handlers that return None.
detect_source_from_header(file) ==
  LET file_type == detect_file_type(file.name)
  IN  IF file_type = "csv"
        THEN IF file.readable THEN detect_csv_source(lower(join(" ", file.header)))
                              ELSE None
      ELSE IF file_type = "pdf"
        THEN IF file.text # None THEN detect_pdf_source(lower(file.text))
                                 ELSE None
      ELSE None

(***************************************************************************)
(* backup/data_import.py: a Chase PDF statement read as text.              *)
(*                                                                         *)
(* The statement is the sequence of its sections in the order of the text, *)
(* each with its header and its transaction lines (date MM/DD,             *)
(* description, printed amount), after ACCOUNT ACTIVITY and before TOTALS  *)
(* YEAR-TO-DATE. It has no table pdfplumber or tabula extracts.            *)
(***************************************************************************)
section_headers ==
  <<"PAYMENTS AND OTHER CREDITS", "PURCHASE", "CASH ADVANCES", "FEES CHARGED",
    "INTEREST CHARGED">>

\* What the ACCOUNT ACTIVITY pattern captures: the text up to the first
\* INTEREST CHARGED or FEES CHARGED (or TOTALS YEAR-TO-DATE at the end).
account_activity(sections) ==
  LET stops == {k \in DOMAIN sections :
                  sections[k].header \in {"INTEREST CHARGED", "FEES CHARGED"}}
  IN  IF stops = {} THEN sections
      ELSE SubSeq(sections, 1, (CHOOSE k \in stops : \A j \in stops : k <= j) - 1)

\* activity_text.find(header, start): the place of the first section at or
\* after start with that header, 0 when there is none.
find(sections, header, start) ==
  LET found == {k \in start..Len(sections) : sections[k].header = header}
  IN  IF found = {} THEN 0 ELSE CHOOSE k \in found : \A j \in found : k <= j

RECURSIVE lines_of(_, _, _)
\* The transaction lines of the text from section start up to section end.
lines_of(sections, start, end) ==
  IF start >= end THEN <<>>
  ELSE sections[start].lines \o lines_of(sections, start + 1, end)

\* The sign a line of a section is given (lines 338-343).
section_amount(section_name, amount) ==
  IF section_name = "PAYMENTS AND OTHER CREDITS" THEN abs(amount)
  ELSE IF section_name \in {"PURCHASE", "CASH ADVANCES", "FEES CHARGED", "INTEREST CHARGED"}
         THEN -abs(amount)
         ELSE amount

RECURSIVE chase_sections(_, _)
\* The loops over section_headers from header i on: the text of a section
\* runs from its header to the first header later in the list that is found
\* after it, and each of its lines becomes a row.
chase_sections(activity, i) ==
  IF i > Len(section_headers) THEN <<>>
  ELSE LET start_pos == find(activity, section_headers[i], 1)
           later == {j \in (i + 1)..Len(section_headers) :
                       find(activity, section_headers[j], start_pos + 1) > start_pos}
           end_pos == IF later = {} THEN Len(activity) + 1
                      ELSE find(activity,
                                section_headers[CHOOSE j \in later : \A k \in later : j <= k],
                                start_pos + 1)
           lines == IF start_pos = 0 THEN <<>> ELSE lines_of(activity, start_pos, end_pos)
       IN  [k \in DOMAIN lines |->
              [date |-> lines[k].date, description |-> lines[k].description,
               amount |-> section_amount(section_headers[i], lines[k].amount)]]
             \o chase_sections(activity, i + 1)

\* The simpler pattern over the full text, tried when the sections gave no
\* row: the sign follows the description (lines 355-392).
chase_lines(sections) ==
  LET lines == lines_of(sections, 1, Len(sections) + 1)
  IN  [k \in DOMAIN lines |->
         LET is_payment == \/ contains(lines[k].description, "PAYMENT")
                           \/ contains(lines[k].description, "CREDIT")
                           \/ contains(lines[k].description, "REFUND")
         IN  [date |-> lines[k].date, description |-> lines[k].description,
              amount |-> IF is_payment THEN abs(lines[k].amount)
                                       ELSE -abs(lines[k].amount)]]

\* extract_tables_from_pdf(filepath, 'chase') of the backup importer.
backup_extract_tables_from_pdf(file) ==
  LET data == chase_sections(account_activity(file.sections), 1)
  IN  IF data # <<>> THEN data ELSE chase_lines(file.sections)

\* What pd.to_datetime makes of a column of MM/DD texts depends on the
\* pandas installed: the year missing, the parser starts from year 1, which
\* a nanosecond timestamp cannot hold (OutOfBoundsDatetime) and a coarser
\* one can.
YearlessDates == {"OutOfBoundsDatetime", "year 1"}

\* import_statement(filepath, source) of the backup importer for a PDF of
\* source chase.
backup_import_statement(file, source, yearless) ==
  LET data == backup_extract_tables_from_pdf(file)
  IN  IF data = <<>>
        THEN Failure("Could not extract transactions from the PDF file for " \o source)
      ELSE IF yearless = "OutOfBoundsDatetime"
        THEN Failure("Out of bounds nanosecond timestamp")
      ELSE [ok |-> TRUE,
            error |-> "",
            df |-> [i \in DOMAIN data |->
                     [date |-> [year |-> 1,
                                month |-> Number(SubSeq(data[i].date, 1, 2)),
                                day |-> Number(SubSeq(data[i].date, 4, 5))],
                      description |-> data[i].description,
                      amount |-> IF flips_sign(source) THEN -data[i].amount
                                                       ELSE data[i].amount,
                      source |-> source,
                      category |-> None,
                      original_category |-> None]]]

(***************************************************************************)
(* utils/database.py                                                       *)
(*                                                                         *)
(* The transactions table is the sequence of its rows in id order, with    *)
(* the seq that SQLite keeps for an AUTOINCREMENT key (0: no row in        *)
(* sqlite_sequence). A call gives [transactions, sqlite_sequence,          *)
(* returned]: the table after it and the value it returns.                 *)
(***************************************************************************)
\* The columns of the transactions table besides id.
transaction_columns ==
  {"date", "description", "amount", "source", "category", "original_category"}

\* The id AUTOINCREMENT gives the next row: one more than the largest id the
\* table holds or sqlite_sequence remembers.
next_id(table, seq) ==
  LET ids == {table[k].id : k \in DOMAIN table} \cup {seq}
  IN  (CHOOSE m \in ids : \A n \in ids : n <= m) + 1

RECURSIVE to_sql(_, _, _)
\* df.to_sql('transactions', conn, if_exists='append', index=False): one
\* INSERT per row of the frame, which has no id column.
to_sql(table, seq, frame) ==
  IF frame = <<>> THEN [transactions |-> table, sqlite_sequence |-> seq]
  ELSE LET id == next_id(table, seq)
           row == [c \in transaction_columns \cup {"id"} |->
                     IF c = "id" THEN id ELSE frame[1][c]]
       IN  to_sql(Append(table, row), id, Tail(frame))

\* As save_to_database, the id column kept: a row that arrives with the id
\* of a stored row takes its place.
save_to_database_upsert(table, seq, frame) ==
  IF \E k \in DOMAIN frame : DOMAIN frame[k] \ {"id"} # transaction_columns
    THEN [transactions |-> table, sqlite_sequence |-> seq, returned |-> FALSE]
    ELSE LET stored == {k \in DOMAIN frame :
                          "id" \in DOMAIN frame[k]
                            /\ \E j \in DOMAIN table : table[j].id = frame[k].id}
             updated == [j \in DOMAIN table |->
                           IF \E k \in stored : frame[k].id = table[j].id
                             THEN LET k == CHOOSE k \in stored : frame[k].id = table[j].id
                                  IN  [c \in transaction_columns \cup {"id"} |-> frame[k][c]]
                             ELSE table[j]]
             fresh == SelectSeq([k \in DOMAIN frame |-> [pos |-> k, row |-> frame[k]]],
                                LAMBDA e : e.pos \notin stored)
         IN  to_sql(updated, seq, [k \in DOMAIN fresh |-> fresh[k].row])
               @@ [returned |-> TRUE]

\* save_to_database(df, db_path) on an initialized database: the id column
\* is dropped and the rows appended; a frame with a column the table lacks
\* makes to_sql raise, and nothing is stored.
save_to_database(table, seq, frame) ==
  IF \E k \in DOMAIN frame : DOMAIN frame[k] \ {"id"} # transaction_columns
    THEN [transactions |-> table, sqlite_sequence |-> seq, returned |-> FALSE]
    ELSE to_sql(table, seq, frame) @@ [returned |-> TRUE]

\* As delete_transaction, sqlite_sequence not reset before the rows are
\* copied back.
delete_transaction_numbering_on(table, seq, transaction_id, reindex) ==
  LET kept == SelectSeq(table, LAMBDA row : row.id # transaction_id)
  IN  IF reindex
        THEN [transactions |-> [k \in DOMAIN kept |-> [kept[k] EXCEPT !.id = seq + k]],
              sqlite_sequence |-> seq + Len(kept),
              returned |-> TRUE]
        ELSE [transactions |-> kept, sqlite_sequence |-> seq, returned |-> TRUE]

\* delete_transaction(transaction_id, db_path, reindex) on an existing
\* database: the row is deleted; with reindex the remaining rows are copied
\* out in id order, the table and its sqlite_sequence row are emptied, and
\* the rows are inserted again in that order without their ids.
delete_transaction(table, seq, transaction_id, reindex) ==
  LET kept == SelectSeq(table, LAMBDA row : row.id # transaction_id)
  IN  IF reindex
        THEN [transactions |-> [k \in DOMAIN kept |-> [kept[k] EXCEPT !.id = k]],
              sqlite_sequence |-> Len(kept),
              returned |-> TRUE]
        ELSE [transactions |-> kept, sqlite_sequence |-> seq, returned |-> TRUE]

\* update_transaction(transaction_id, field, value, db_path) for a field of
\* valid_fields: the UPDATE of the rows with that id.
update_transaction(table, transaction_id, field, value) ==
  [k \in DOMAIN table |->
     IF table[k].id = transaction_id THEN [table[k] EXCEPT ![field] = value]
                                     ELSE table[k]]

(***************************************************************************)
(* account_balance.py                                                      *)
(*                                                                         *)
(* Table account_balances is the sequence of its rows, each with its       *)
(* account_name and balance (the id and the last_updated stamp are left    *)
(* out: no call reads them).                                               *)
(***************************************************************************)
\* As update_account_balance, without the test for a stored row.
update_account_balance_inserting(table, account_name, balance) ==
  [account_balances |-> Append(table, [account_name |-> account_name, balance |-> balance]),
   returned |-> TRUE]

\* update_account_balance(account_name, balance, db_path): UPDATE of the
\* rows of that account when there is one, else INSERT of a row.
update_account_balance(table, account_name, balance) ==
  LET account_exists == \E k \in DOMAIN table : table[k].account_name = account_name
  IN  IF account_exists
        THEN [account_balances |->
                [k \in DOMAIN table |->
                   IF table[k].account_name = account_name
                     THEN [table[k] EXCEPT !.balance = balance]
                     ELSE table[k]],
              returned |-> TRUE]
        ELSE [account_balances |->
                Append(table, [account_name |-> account_name, balance |-> balance]),
              returned |-> TRUE]

\* delete_account(account_name, db_path): DELETE of the rows of that account.
delete_account(table, account_name) ==
  [account_balances |-> SelectSeq(table, LAMBDA row : row.account_name # account_name),
   returned |-> TRUE]

(***************************************************************************)
(* The statements uploaded: the inputs of the model.                       *)
(***************************************************************************)
\* The longest statement, in data rows.
MaxRows == 2

\* How many times categorize_transactions is applied to one frame.
MaxPasses == 2

StatementRow(date, description, amount, category, original) ==
  [date |-> date, post_date |-> date, description |-> description,
   amount |-> amount, category |-> category, original_category |-> original]

\* Rows of every null/non-null combination of original_category, category
\* and description, amounts of both signs and zero under income and expense
\* categories, and a row whose date does not parse.
BatchRows ==
  { StatementRow("2024-01-15", None, 0, None, None),
    StatementRow("2024-01-15", "Starbucks Coffee #123", -5, None, None),
    StatementRow("2024-01-15", None, 3, "Pets", None),
    StatementRow("2024-01-15", "Starbucks Coffee #123", -5, "Refund", None),
    StatementRow("2024-01-15", None, 3, None, "Income & Transfers"),
    StatementRow("2024-01-15", "Payroll deposit", 0, None, "Food & Drink"),
    StatementRow("2024-01-15", None, -5, "Pets", "Income & Transfers"),
    StatementRow("2024-01-15", "Starbucks Coffee #123", 3, "Pets", "Bogus"),
    StatementRow("2024-02-29", "Payroll deposit", -5, None, None),
    StatementRow("not a date", "Starbucks Coffee #123", -5, None, None) }

Words == {"Uber", "eats", "gas", "insurance", "fee", "xyz"}

Separators == {" ", "", "_", "-", "9"}

\* Descriptions that put keywords apart (a space, a hyphen) or inside longer
\* words (nothing, an underscore or a digit between them).
WideDescriptions ==
  {w1 \o sep \o w2 : w1 \in Words, sep \in Separators, w2 \in Words}
    \cup {"Starbucks Coffee #123", "XYZ9382 transfer", "Trader Joe's #45",
          "gasoline", "SHELL GAS 0042", "AT&T bill", "booking.com stay",
          "Interest charge", "late-fee", " ", "#"}

\* Bank categories: every key of the table, as written, in lower case and
\* inside a longer text, and texts no key matches.
WideOriginals ==
  {mapping[i][1] : i \in 1..Len(mapping)}
    \cup {lower(mapping[i][1]) : i \in 1..Len(mapping)}
    \cup {mapping[i][1] \o " Stores" : i \in 1..Len(mapping)}
    \cup {"Bogus", "Fo & Dr"}

WideRows ==
  {StatementRow("2024-01-15", d, -5, None, None) : d \in WideDescriptions}
    \cup {StatementRow("2024-01-15", "Starbucks Coffee #123", -5, c, o) :
            c \in {None, "Pets"}, o \in WideOriginals}

Batches(rows, n) == UNION {[1..k -> rows] : k \in 1..n}

\* A file whose headers are DOMAIN layout, the column under header c holding
\* the field layout[c] of each row.
MakeFile(name, layout, rows) ==
  [name |-> name,
   columns |-> DOMAIN layout,
   rows |-> [i \in DOMAIN rows |-> [c \in DOMAIN layout |-> rows[i][layout[c]]]]]

\* A file that already carries the canonical column names.
CanonicalLayout ==
  [c \in {"date", "description", "amount", "category", "original_category"} |-> c]

\* What a PDF extraction returns: date, description and amount.
ExtractedLayout == [c \in {"date", "description", "amount"} |-> c]

\* The headers of each bank's own CSV export and the field under each.
SourceExport(s) ==
  CASE s \in {"wells_fargo", "schwab"} ->
         ("Date" :> "date") @@ ("Description" :> "description") @@ ("Amount" :> "amount")
    [] s = "chase" ->
         ("Transaction Date" :> "date") @@ ("Post Date" :> "post_date")
           @@ ("Description" :> "description") @@ ("Category" :> "original_category")
           @@ ("Amount" :> "amount")
    [] s = "bank_of_america" ->
         ("Posted Date" :> "date") @@ ("Payee" :> "description") @@ ("Amount" :> "amount")
    [] s = "apple_pay" ->
         ("Date" :> "date") @@ ("Description" :> "description") @@ ("Amount (USD)" :> "amount")

Upload(file, source) == [file |-> file, source |-> source]

\* Each source's own export and the canonical layout, imported as that source.
BatchUploads ==
  {Upload(MakeFile("statement.csv", SourceExport(s), b), s) :
     s \in KnownSources, b \in Batches(BatchRows, MaxRows)}
    \cup {Upload(MakeFile("statement.csv", CanonicalLayout, b), s) :
            s \in {"chase", "schwab"}, b \in Batches(BatchRows, MaxRows)}

WideUploads ==
  {Upload(MakeFile("Statement.CSV", CanonicalLayout, <<r>>), "schwab") : r \in WideRows}

\* Rows of an extracted PDF table, whose cells may be empty text (an empty
\* CSV cell is read as a null).
ExtractedRows ==
  { StatementRow("2024-01-15", "Starbucks Coffee #123", -5, None, None),
    StatementRow("2024-01-15", "", 3, None, None) }

\* One source's export imported as another or as a source that is not
\* registered, and files of other types with the table extracted from them.
OddUploads ==
  {Upload(MakeFile("statement.csv", SourceExport(l),
                   <<StatementRow("2024-01-15", "Starbucks Coffee #123", -5, None, None)>>), s) :
     l \in KnownSources, s \in KnownSources \cup {"venmo"}}
    \cup {Upload(MakeFile(n, ExtractedLayout, b), s) :
            n \in {"statement.pdf", "statement.xlsx", "statement"},
            s \in {"chase", "schwab", "venmo"},
            b \in {<<>>} \cup Batches(ExtractedRows, 1)}

\* The headers of files that leave a field of the chosen source unbound, and
\* the field of the row under each: no header the source knows, the
\* description under 'Memo', the amount under 'Transaction Amount'.
UnboundLayouts ==
  { ("Foo" :> "date") @@ ("Bar" :> "description") @@ ("Baz" :> "amount"),
    ("Date" :> "date") @@ ("Memo" :> "description") @@ ("Amount" :> "amount"),
    ("Date" :> "date") @@ ("Description" :> "description")
      @@ ("Transaction Amount" :> "amount") }

\* Files whose headers the chosen source does not know, and a source's own
\* export whose dates carry no year, under a name that carries one.
PartialUploads ==
  {Upload(MakeFile("statement.csv", l,
                   <<StatementRow("2024-01-15", "Starbucks Coffee #123", -5, None, None)>>), s) :
     l \in UnboundLayouts, s \in KnownSources}
    \cup {Upload(MakeFile("2023_statement.csv", SourceExport(s),
                          <<StatementRow("03/15", "Starbucks Coffee #123", -5, None, None)>>), s) :
            s \in {"chase", "schwab"}}

Uploads == BatchUploads \cup WideUploads \cup OddUploads \cup PartialUploads

\* An uploaded file as a run sees it: its name, the header pd.read_csv reads
\* from it (readable: whether it reads one), the text a PDF reader extracts
\* from it (None: extraction fails), and no data row.
RunFile(name, header, text, readable) ==
  [name |-> name, header |-> header, columns |-> {header[i] : i \in DOMAIN header},
   rows |-> <<>>, text |-> text, readable |-> readable]

\* Headers of the banks' exports, a header no rule knows, and one whose
\* columns make a Bank of America substring only when joined.
BaseHeaders ==
  { <<"Date", "Description", "Amount">>,
    <<"Transaction Date", "Post Date", "Description", "Category", "Type", "Amount">>,
    <<"Posted Date", "Reference Number", "Payee", "Address", "Amount">>,
    <<"Transaction Date", "Clearing Date", "Description", "Merchant", "Category",
      "Type", "Amount (USD)">>,
    <<"Foo", "Bar", "Baz">>,
    <<"Posted", "Date", "Payee", "Amount">>,
    <<"Transaction Date", "Post Date", "Description", "Amount", "Category">>,
    <<"Posted Date", "Payee", "Amount">>,
    <<"Date", "Description", "Amount (USD)">> }

\* Columns that carry the single keyword of a source.
KeywordColumns == {"Wells Fargo Ref", "Apple Pay", "Schwab Account"}

Headers == BaseHeaders \cup {Append(h, c) : h \in BaseHeaders, c \in KeywordColumns}

\* Texts of the first pages of a PDF: each bank named, two banks named, no
\* bank named, no text, and extraction failing.
PdfTexts ==
  { "Wells Fargo Online Statement", "JPMorgan CHASE Bank", "Bank of America",
    "Apple Card Monthly Statement", "Charles Schwab & Co.",
    "Paid to Chase from Bank of America", "Account statement", "", None }

\* The files a run is given: CSV and PDF files by extension in either case,
\* and files of other extensions and of none.
RunFiles ==
  {RunFile(n, h, None, TRUE) : n \in {"statement.csv", "Statement.CSV"}, h \in Headers}
    \cup {RunFile(n, <<>>, None, FALSE) : n \in {"statement.csv", "Statement.CSV"}}
    \cup {RunFile(n, <<>>, t, TRUE) : n \in {"statement.pdf", "Report.PDF"}, t \in PdfTexts}
    \cup {RunFile(n, <<>>, None, TRUE) :
            n \in {"statement.xlsx", "Book1.XLS", "notes.txt", "statement.csv.bak",
                   "statement"}}

\* The scripts that handle an upload: dashboard.py and pages/import_data.py.
Pages == {"dashboard", "import_data"}

\* The most rows the transactions table holds in the model.
MaxStored == 3

\* The largest id SQLite hands out in the model.
MaxSeq == 5

\* The longest frame saved in one call.
MaxBatch == 2

\* A categorized transaction as the pipeline returns it.
Transaction(description, amount, category) ==
  [date |-> "2024-01-15", description |-> description, amount |-> amount,
   source |-> "schwab", category |-> category, original_category |-> None]

\* Rows of the frames saved: one from the pipeline, one loaded from the
\* database before (it carries the id it had), one with a column the table
\* lacks.
SavedRows ==
  { Transaction("Starbucks Coffee #123", -5, "Dining"),
    Transaction("Payroll deposit", 3, "Income") @@ [id |-> 1],
    Transaction("Payroll deposit", 3, "Income") @@ [month |-> "2024-01"] }

\* Names typed into the Manage Categories page: new names, one with blanks
\* around it, a standard name, a name in another case, nothing, blanks.
TypedNames == {"Pets", " Pets ", "pets", "Zoo", "Income", "", " "}

\* Accounts and balances entered on the balance page.
AccountNames == {"Wells Fargo", "Chase", "Schwab"}

Balances == {0, 100, -250}

\* Custom categories of the database the Manage Categories page opens on.
ManagedNames == {"Pets", "Zoo", "Hobbies"}

\* The transactions tables the page opens on: rows 1..n, each in a custom or
\* a standard category.
StoredTables ==
  {[k \in DOMAIN cs |-> Transaction("Vet visit", -5, cs[k]) @@ [id |-> k]] :
     cs \in {<<>>} \cup Batches(ManagedNames \cup {"Dining"}, MaxBatch)}

\* The line a section of the model's Chase statements holds.
SectionLine ==
  ("PAYMENTS AND OTHER CREDITS" :> "AUTOMATIC PAYMENT - THANK YOU")
    @@ ("PURCHASE" :> "STARBUCKS STORE 123")
    @@ ("CASH ADVANCES" :> "ATM WITHDRAWAL")
    @@ ("FEES CHARGED" :> "LATE FEE")
    @@ ("INTEREST CHARGED" :> "INTEREST CHARGE ON PURCHASES")

\* Chase statements: any of the five sections in the statement's order, each
\* with one line whose amount is printed with or without a minus sign.
ChaseStatements ==
  LET layouts == [1..Len(section_headers) -> {0, 25, -25}]
      Section(i, amount) ==
        [header |-> section_headers[i],
         lines |-> <<[date |-> "03/15", description |-> SectionLine[section_headers[i]],
                      amount |-> amount]>>]
      Sections(layout) ==
        SelectSeq([i \in 1..Len(section_headers) |-> Section(i, layout[i])],
                  LAMBDA section : section.lines[1].amount # 0)
  IN  {[name |-> "statement.pdf", sections |-> Sections(layout)] : layout \in layouts}

\* Names a user gives custom categories.
CustomNames == {"Pets"}

(***************************************************************************)
(* The pipeline: import_statement, then categorize_transactions, then      *)
(* normalize_transaction_signs (dashboard.py, lines 281-294), over the     *)
(* custom_categories table.                                                *)
(***************************************************************************)
VARIABLES
  file,               \* the uploaded statement
  source,             \* the source chosen for it
  pc,                 \* "uploaded", "imported", "categorized", "normalized", "failed";
                      \* in a run "uploaded", "saved", "typed", "detected", "ended"
  df,                 \* the frame the last step returned
  prev,               \* the frame that step was given
  passes,             \* applications of categorize_transactions so far
  error,              \* the message of the exception import raised, or shown by a run
  custom_categories,  \* category_name of the custom_categories table
  page,               \* the script handling the upload, None outside a run
  temp_file,          \* whether the file at temp_file_path exists
  file_type,          \* what detect_file_type returned in the run
  detected_source,    \* what detect_source_from_header returned in the run
  transactions,       \* the rows of the transactions table, in id order
  sqlite_sequence,    \* the seq SQLite keeps for transactions, 0 without a row
  account_balances,   \* the rows of the account_balances table, in id order
  call,               \* the last call made on the database and its arguments
  result,             \* what that call returned
  delete_confirmation,               \* st.session_state.delete_confirmation
  delete_with_reclass_confirmation,  \* st.session_state.delete_with_reclass_confirmation
  category_to_delete, \* the value of the 'Select Category to Delete' box
  last_balance,       \* history: the balance last passed for each account that was
                      \* updated and not deleted since
  live                \* history: the names add_custom_category was given and stored,
                      \* less those delete_custom_category was given since

\* The state of an upload-handling run.
run == <<page, temp_file, file_type, detected_source>>

\* The database tables besides custom_categories, the last call on them, the
\* session state of the Manage Categories page, and the history variables.
store == <<transactions, sqlite_sequence, account_balances, call, result,
           delete_confirmation, delete_with_reclass_confirmation, category_to_delete,
           last_balance, live>>

vars == <<file, source, pc, df, prev, passes, error, custom_categories, run, store>>

\* No table holds a row and the Manage Categories page has not been opened.
StoreIdle ==
  /\ transactions = <<>>
  /\ sqlite_sequence = 0
  /\ account_balances = <<>>
  /\ call = [op |-> None]
  /\ result = None
  /\ delete_confirmation = FALSE
  /\ delete_with_reclass_confirmation = FALSE
  /\ category_to_delete = None
  /\ last_balance = <<>>
  /\ live = {}

\* No statement is uploaded and no run is under way.
PipelineIdle ==
  /\ file = None
  /\ source = None
  /\ pc = "idle"
  /\ df = <<>>
  /\ prev = <<>>
  /\ passes = 0
  /\ error = ""
  /\ page = None
  /\ temp_file = FALSE
  /\ file_type = None
  /\ detected_source = None

Init ==
  /\ \E u \in Uploads : file = u.file /\ source = u.source
  /\ pc = "uploaded"
  /\ df = <<>>
  /\ prev = <<>>
  /\ passes = 0
  /\ error = ""
  /\ custom_categories = {}
  /\ page = None
  /\ temp_file = FALSE
  /\ file_type = None
  /\ detected_source = None
  /\ StoreIdle

Import ==
  /\ pc = "uploaded"
  /\ LET r == import_statement(file, source)
     IN  /\ pc' = IF r.ok THEN "imported" ELSE "failed"
         /\ df' = r.df
         /\ error' = r.error
  /\ UNCHANGED <<file, source, prev, passes, custom_categories, run, store>>

Categorize ==
  /\ pc \in {"imported", "categorized"}
  /\ passes < MaxPasses
  /\ prev' = df
  /\ df' = categorize_transactions(df)
  /\ passes' = passes + 1
  /\ pc' = "categorized"
  /\ UNCHANGED <<file, source, error, custom_categories, run, store>>

Normalize ==
  /\ pc \in {"imported", "categorized"}
  /\ prev' = df
  /\ df' = normalize_transaction_signs(df)
  /\ pc' = "normalized"
  /\ UNCHANGED <<file, source, passes, error, custom_categories, run, store>>

\* INSERT OR IGNORE of the stripped name; an empty name is refused.
add_custom_category(category_name) ==
  /\ custom_categories' = add_custom_category_to(custom_categories, category_name).custom_categories
  /\ UNCHANGED <<file, source, pc, df, prev, passes, error, run, store>>

delete_custom_category(category_name) ==
  /\ custom_categories' =
       delete_custom_category_from(custom_categories, category_name).custom_categories
  /\ UNCHANGED <<file, source, pc, df, prev, passes, error, run, store>>

Next ==
  \/ Import
  \/ Categorize
  \/ Normalize
  \/ \E n \in CustomNames : add_custom_category(n)
  \/ \E n \in CustomNames : delete_custom_category(n)

Spec == Init /\ [][Next]_vars

(***************************************************************************)
(* An upload-handling run of dashboard.py (lines 225-324) or of            *)
(* pages/import_data.py (lines 50-184): pc goes from "uploaded" through    *)
(* "saved", "typed" and "detected" to "ended".                             *)
(***************************************************************************)
\* uuid.uuid4().hex, one value of it.
unique_id == "0a1b"

temp_file_path(name) == "temp_uploads/" \o unique_id \o "_" \o name

\* The uploaded file under its temporary path.
TempFile == [file EXCEPT !.name = temp_file_path(file.name)]

source_options == <<"wells_fargo", "chase", "bank_of_america", "apple_pay", "schwab">>

\* The keyword each script passes to import_statement besides the path and
\* the source.
import_keyword(script) == IF script = "dashboard" THEN "sheet_name" ELSE "page_numbers"

RunInit ==
  /\ page \in Pages
  /\ file \in RunFiles
  /\ source = None
  /\ pc = "uploaded"
  /\ temp_file = FALSE
  /\ file_type = None
  /\ detected_source = None
  /\ df = <<>>
  /\ prev = <<>>
  /\ passes = 0
  /\ error = ""
  /\ custom_categories = {}
  /\ StoreIdle

\* The uploaded bytes are written to temp_file_path.
SaveUpload ==
  /\ pc = "uploaded"
  /\ temp_file' = TRUE
  /\ pc' = "saved"
  /\ UNCHANGED <<file, source, df, prev, passes, error, custom_categories,
                 page, file_type, detected_source, store>>

\* detect_file_type and the check of its result. pages/import_data.py
\* returns from main on 'unknown' (line 65); dashboard.py reports any type
\* but 'xlsx' and 'xls' and goes on to its clean-up (lines 317-319).
DetectType ==
  /\ pc = "saved"
  /\ LET type == detect_file_type(temp_file_path(file.name))
     IN  /\ file_type' = type
         /\ IF page = "import_data"
              THEN IF type = "unknown"
                     THEN /\ error' = "Unsupported file format. Please upload a CSV or PDF file."
                          /\ pc' = "ended"
                          /\ UNCHANGED temp_file
                     ELSE /\ pc' = "typed"
                          /\ UNCHANGED <<error, temp_file>>
              ELSE IF type \notin {"xlsx", "xls"}
                     THEN /\ error' = "Unsupported file format. Please upload an Excel (XLSX/XLS) file."
                          /\ temp_file' = FALSE
                          /\ pc' = "ended"
                     ELSE /\ pc' = "typed"
                          /\ UNCHANGED <<error, temp_file>>
  /\ UNCHANGED <<file, source, df, prev, passes, custom_categories, page,
                 detected_source, store>>

\* detect_source_from_header, and the source the user leaves or picks in the
\* select box.
DetectSource ==
  /\ pc = "typed"
  /\ detected_source' = detect_source_from_header(TempFile)
  /\ \E i \in DOMAIN source_options : source' = source_options[i]
  /\ pc' = "detected"
  /\ UNCHANGED <<file, df, prev, passes, error, custom_categories, page, temp_file,
                 file_type, store>>

\* The run in which Import Data is not pressed (or, in pages/import_data.py,
\* the preview is not confirmed): it reaches the clean-up at the end of the
\* try block, or the handler of the outer try, which removes the file too.
NoImport ==
  /\ pc = "detected"
  /\ temp_file' = FALSE
  /\ pc' = "ended"
  /\ UNCHANGED <<file, source, df, prev, passes, error, custom_categories,
                 page, file_type, detected_source, store>>

\* The run in which Import Data is pressed: import_statement, then
\* categorize_transactions (and normalize_transaction_signs in dashboard.py),
\* then save_to_database, which succeeds or not. An exception is reported
\* by the inner handler and the run goes on to the clean-up; st.rerun()
\* (dashboard.py, line 311) leaves the run where it is called.
ImportData ==
  /\ pc = "detected"
  /\ LET r == call_import_statement(TempFile, source, import_keyword(page))
     IN  IF ~r.ok
           THEN /\ error' = "Error during import: " \o r.error
                /\ df' = <<>>
                /\ temp_file' = FALSE
           ELSE IF r.df = <<>>
             THEN /\ error' = "No transactions were found in the file. Please check the file format and try again."
                  /\ df' = r.df
                  /\ temp_file' = FALSE
             ELSE \E success \in BOOLEAN :
                    /\ df' = IF page = "dashboard"
                               THEN normalize_transaction_signs(categorize_transactions(r.df))
                               ELSE categorize_transactions(r.df)
                    /\ error' = IF success THEN "" ELSE "Error saving data to database"
                    /\ temp_file' = (success /\ page = "dashboard")
  /\ pc' = "ended"
  /\ UNCHANGED <<file, source, prev, passes, custom_categories, page, file_type,
                 detected_source, store>>

RunNext ==
  \/ SaveUpload
  \/ DetectType
  \/ DetectSource
  \/ NoImport
  \/ ImportData

RunSpec == RunInit /\ [][RunNext]_vars

(***************************************************************************)
(* The transactions table under save_to_database and delete_transaction.   *)
(***************************************************************************)
DbInit ==
  /\ PipelineIdle
  /\ custom_categories = {}
  /\ StoreIdle

SaveToDatabase(frame) ==
  /\ Len(transactions) + Len(frame) <= MaxStored
  /\ sqlite_sequence + Len(frame) <= MaxSeq
  /\ LET r == save_to_database(transactions, sqlite_sequence, frame)
     IN  /\ transactions' = r.transactions
         /\ sqlite_sequence' = r.sqlite_sequence
         /\ result' = r.returned
  /\ call' = [op |-> "save_to_database", df |-> frame]
  /\ UNCHANGED <<file, source, pc, df, prev, passes, error, custom_categories, run,
                 account_balances, delete_confirmation, delete_with_reclass_confirmation,
                 category_to_delete, last_balance, live>>

DeleteTransaction(transaction_id, reindex) ==
  /\ LET r == delete_transaction(transactions, sqlite_sequence, transaction_id, reindex)
     IN  /\ transactions' = r.transactions
         /\ sqlite_sequence' = r.sqlite_sequence
         /\ result' = r.returned
  /\ call' = [op |-> "delete_transaction", transaction_id |-> transaction_id,
              reindex |-> reindex]
  /\ UNCHANGED <<file, source, pc, df, prev, passes, error, custom_categories, run,
                 account_balances, delete_confirmation, delete_with_reclass_confirmation,
                 category_to_delete, last_balance, live>>

DbNext ==
  \/ \E frame \in Batches(SavedRows, MaxBatch) : SaveToDatabase(frame)
  \/ \E transaction_id \in 1..MaxSeq, reindex \in BOOLEAN :
       DeleteTransaction(transaction_id, reindex)

DbSpec == DbInit /\ [][DbNext]_vars

(***************************************************************************)
(* The custom_categories table under add_custom_category and               *)
(* delete_custom_category. live is the history of the calls: the names     *)
(* that an add reported stored and no later delete named.                  *)
(***************************************************************************)
CategoryInit ==
  /\ PipelineIdle
  /\ custom_categories = {}
  /\ StoreIdle

AddCustomCategory(category_name) ==
  /\ LET r == add_custom_category_to(custom_categories, category_name)
     IN  /\ custom_categories' = r.custom_categories
         /\ result' = r.returned
         /\ live' = IF r.returned THEN live \cup {strip(category_name)} ELSE live
  /\ call' = [op |-> "add_custom_category", category_name |-> category_name]
  /\ UNCHANGED <<file, source, pc, df, prev, passes, error, run, transactions,
                 sqlite_sequence, account_balances, delete_confirmation,
                 delete_with_reclass_confirmation, category_to_delete, last_balance>>

DeleteCustomCategory(category_name) ==
  /\ LET r == delete_custom_category_from(custom_categories, category_name)
     IN  /\ custom_categories' = r.custom_categories
         /\ result' = r.returned
  /\ live' = live \ {category_name}
  /\ call' = [op |-> "delete_custom_category", category_name |-> category_name]
  /\ UNCHANGED <<file, source, pc, df, prev, passes, error, run, transactions,
                 sqlite_sequence, account_balances, delete_confirmation,
                 delete_with_reclass_confirmation, category_to_delete, last_balance>>

CategoryNext ==
  \/ \E category_name \in TypedNames : AddCustomCategory(category_name)
  \/ \E category_name \in TypedNames : DeleteCustomCategory(category_name)

CategorySpec == CategoryInit /\ [][CategoryNext]_vars

(***************************************************************************)
(* Table account_balances under update_account_balance and delete_account  *)
(* called one after the other. last_balance is the history of the calls:   *)
(* for each account updated and not deleted since, the balance of its last *)
(* update.                                                                 *)
(***************************************************************************)
AccountInit ==
  /\ PipelineIdle
  /\ custom_categories = {}
  /\ StoreIdle

UpdateAccountBalance(account_name, balance) ==
  /\ LET r == update_account_balance(account_balances, account_name, balance)
     IN  /\ account_balances' = r.account_balances
         /\ result' = r.returned
  /\ last_balance' = (account_name :> balance) @@ last_balance
  /\ call' = [op |-> "update_account_balance", account_name |-> account_name,
              balance |-> balance]
  /\ UNCHANGED <<file, source, pc, df, prev, passes, error, custom_categories, run,
                 transactions, sqlite_sequence, delete_confirmation,
                 delete_with_reclass_confirmation, category_to_delete, live>>

DeleteAccount(account_name) ==
  /\ LET r == delete_account(account_balances, account_name)
     IN  /\ account_balances' = r.account_balances
         /\ result' = r.returned
  /\ last_balance' = [a \in DOMAIN last_balance \ {account_name} |-> last_balance[a]]
  /\ call' = [op |-> "delete_account", account_name |-> account_name]
  /\ UNCHANGED <<file, source, pc, df, prev, passes, error, custom_categories, run,
                 transactions, sqlite_sequence, delete_confirmation,
                 delete_with_reclass_confirmation, category_to_delete, live>>

AccountNext ==
  \/ \E account_name \in AccountNames, balance \in Balances :
       UpdateAccountBalance(account_name, balance)
  \/ \E account_name \in AccountNames : DeleteAccount(account_name)

AccountSpec == AccountInit /\ [][AccountNext]_vars

(***************************************************************************)
(* pages/6_manage_categories.py, tab Delete Category.  Every action is one *)
(* rerun of the script: it reads the tables, shows the selectbox with the  *)
(* stored custom categories and the buttons the session flags call for.    *)
(* category_to_delete is the selectbox's value (None: the tab has no       *)
(* selectbox, the table being empty).                                      *)
(***************************************************************************)
ManageInit ==
  /\ PipelineIdle
  /\ custom_categories \in SUBSET ManagedNames
  /\ transactions \in StoredTables
  /\ \A k \in DOMAIN transactions :
       transactions[k].category \in standard_categories \cup custom_categories
  /\ sqlite_sequence = Len(transactions)
  /\ category_to_delete \in IF custom_categories = {} THEN {None} ELSE custom_categories
  /\ delete_confirmation = FALSE
  /\ delete_with_reclass_confirmation = FALSE
  /\ account_balances = <<>>
  /\ call = [op |-> None]
  /\ result = None
  /\ last_balance = <<>>
  /\ live = {}

\* The selectbox after a rerun that finds the options changed: it falls
\* back to the first stored name, which any of the remaining names can be.
Selectbox(options) == IF options = {} THEN {None} ELSE options

\* The user picks another category in the selectbox; the flags stay.
SelectCategory(category_name) ==
  /\ category_name \in custom_categories
  /\ category_name # category_to_delete
  /\ category_to_delete' = category_name
  /\ UNCHANGED <<file, source, pc, df, prev, passes, error, custom_categories, run,
                 transactions, sqlite_sequence, account_balances, call, result,
                 delete_confirmation, delete_with_reclass_confirmation, last_balance,
                 live>>

\* Button "Delete Selected Category".
ClickDelete ==
  /\ custom_categories # {}
  /\ ~delete_confirmation /\ ~delete_with_reclass_confirmation
  /\ LET category_used ==
           \E k \in DOMAIN transactions : transactions[k].category = category_to_delete
     IN  IF category_used
           THEN /\ delete_with_reclass_confirmation' = TRUE
                /\ UNCHANGED delete_confirmation
           ELSE /\ delete_confirmation' = TRUE
                /\ UNCHANGED delete_with_reclass_confirmation
  /\ UNCHANGED <<file, source, pc, df, prev, passes, error, custom_categories, run,
                 transactions, sqlite_sequence, account_balances, call, result,
                 category_to_delete, last_balance, live>>

\* Button "Yes, Delete Category".
ConfirmDelete ==
  /\ custom_categories # {}
  /\ delete_confirmation
  /\ LET r == delete_custom_category_from(custom_categories, category_to_delete)
     IN  /\ custom_categories' = r.custom_categories
         /\ result' = r.returned
         /\ category_to_delete' \in Selectbox(r.custom_categories)
  /\ call' = [op |-> "delete_custom_category", category_name |-> category_to_delete]
  /\ delete_confirmation' = FALSE
  /\ UNCHANGED <<file, source, pc, df, prev, passes, error, run, transactions,
                 sqlite_sequence, account_balances, delete_with_reclass_confirmation,
                 last_balance, live>>

\* Button "No, Cancel" of the plain confirmation.
CancelDelete ==
  /\ custom_categories # {}
  /\ delete_confirmation
  /\ delete_confirmation' = FALSE
  /\ UNCHANGED <<file, source, pc, df, prev, passes, error, custom_categories, run,
                 transactions, sqlite_sequence, account_balances, call, result,
                 delete_with_reclass_confirmation, category_to_delete, last_balance,
                 live>>

RECURSIVE reclassify(_, _)
\* The loop over transactions_to_update: update_transaction(id, 'category',
\* 'Miscellaneous') for each id.
reclassify(table, ids) ==
  IF ids = {} THEN table
  ELSE LET id == CHOOSE id \in ids : \A other \in ids : id <= other
       IN  reclassify(update_transaction(table, id, "category", "Miscellaneous"),
                      ids \ {id})

\* Button "Yes, Delete & Reclassify".
ConfirmReclassify ==
  /\ custom_categories # {}
  /\ ~delete_confirmation /\ delete_with_reclass_confirmation
  /\ LET transactions_to_update ==
           {transactions[k].id : k \in {j \in DOMAIN transactions :
                                          transactions[j].category = category_to_delete}}
         r == delete_custom_category_from(custom_categories, category_to_delete)
     IN  /\ transactions' = reclassify(transactions, transactions_to_update)
         /\ custom_categories' = r.custom_categories
         /\ result' = r.returned
         /\ category_to_delete' \in Selectbox(r.custom_categories)
  /\ call' = [op |-> "delete_custom_category", category_name |-> category_to_delete]
  /\ delete_with_reclass_confirmation' = FALSE
  /\ UNCHANGED <<file, source, pc, df, prev, passes, error, run, sqlite_sequence,
                 account_balances, delete_confirmation, last_balance, live>>

\* Button "No, Cancel" of the confirmation with reclassification.
CancelReclassify ==
  /\ custom_categories # {}
  /\ ~delete_confirmation /\ delete_with_reclass_confirmation
  /\ delete_with_reclass_confirmation' = FALSE
  /\ UNCHANGED <<file, source, pc, df, prev, passes, error, custom_categories, run,
                 transactions, sqlite_sequence, account_balances, call, result,
                 delete_confirmation, category_to_delete, last_balance, live>>

ManageNext ==
  \/ \E category_name \in ManagedNames : SelectCategory(category_name)
  \/ ClickDelete
  \/ ConfirmDelete
  \/ CancelDelete
  \/ ConfirmReclassify
  \/ CancelReclassify

ManageSpec == ManageInit /\ [][ManageNext]_vars

(***************************************************************************)
(* The backup importer on a Chase PDF statement.                           *)
(***************************************************************************)
BackupInit ==
  /\ file \in ChaseStatements
  /\ source = "chase"
  /\ pc = "uploaded"
  /\ df = <<>> /\ prev = <<>> /\ passes = 0 /\ error = ""
  /\ custom_categories = {}
  /\ page = None /\ temp_file = FALSE /\ file_type = None /\ detected_source = None
  /\ StoreIdle

BackupImport ==
  /\ pc = "uploaded"
  /\ \E yearless \in YearlessDates :
       LET r == backup_import_statement(file, source, yearless)
       IN  /\ pc' = IF r.ok THEN "imported" ELSE "failed"
           /\ df' = r.df
           /\ error' = r.error
  /\ UNCHANGED <<file, source, prev, passes, custom_categories, run, store>>

BackupNext == BackupImport

BackupSpec == BackupInit /\ [][BackupNext]_vars

(***************************************************************************)
(* Properties.  At pc = "categorized" and pc = "normalized", prev is the   *)
(* frame the step was given and df the frame it returned.                  *)
(***************************************************************************)
Rows == DOMAIN df

\* The Category Vocabulary: the standard list united with the stored custom
\* categories.
Vocabulary == standard_categories \cup custom_categories

IncomeSet == {"Income", "Investments", "Refund"}

Magnitude(n) == IF n < 0 THEN 0 - n ELSE n

\* The amount's sign agrees with the category: positive iff the category is
\* in the income set, zero exempt.
SignAgrees(row) ==
  row.amount # 0 => ((row.amount > 0) <=> (row.category \in IncomeSet))

\* keyword occurs in text between positions that are the text's ends or hold
\* no letter, digit or underscore.
WholeWord(keyword, text) ==
  \E i \in 1..(Len(text) - Len(keyword) + 1) :
    LET j == i + Len(keyword) - 1
    IN  /\ SubSeq(text, i, j) = keyword
        /\ i = 1 \/ CharAt(text, i - 1) \notin WordChars
        /\ j = Len(text) \/ CharAt(text, j + 1) \notin WordChars

\* The places, in table order, of the categories with a keyword that is a
\* whole word of the lower-cased description.
KeywordHits(description) ==
  LET text == lower(description)
  IN  {c \in 1..Len(categories) :
         \E k \in 1..Len(categories[c].keywords) :
           WholeWord(categories[c].keywords[k], text)}

Least(S) == CHOOSE n \in S : \A m \in S : n <= m

\* key occurs in text, letter case ignored.
OccursIgnoringCase(key, text) ==
  \E i \in 1..(Len(text) - Len(key) + 1) :
    \A k \in 1..Len(key) : LowerChar(CharAt(text, i + k - 1)) = LowerChar(CharAt(key, k))

\* The translation of a bank category: the exact key, else the first key in
\* table order occurring in it whatever the case, else Miscellaneous.
BankTranslation(original) ==
  LET exact == {m \in 1..Len(mapping) : mapping[m][1] = original}
      partial == {m \in 1..Len(mapping) : OccursIgnoringCase(mapping[m][1], original)}
  IN  IF exact # {} THEN mapping[Least(exact)][2]
      ELSE IF partial # {} THEN mapping[Least(partial)][2]
      ELSE "Miscellaneous"

\* C1: categorize_transactions is idempotent: the second application leaves
\* on every row the category the first one gave.
C1_Idempotent ==
  (pc = "categorized" /\ passes >= 2) =>
    /\ DOMAIN df = DOMAIN prev
    /\ \A i \in Rows : df[i].category = prev[i].category

C1_Witness ==
  /\ pc = "categorized" /\ passes = 2
  /\ \E i, j \in Rows :
       /\ df[i].original_category # None
       /\ df[j].original_category = None /\ df[j].category = "Dining"
       /\ file.rows[j]["category"] = None

\* C2: after normalize_transaction_signs a non-zero amount is positive iff
\* the category is in the income set and negative otherwise, its absolute
\* value is the input's, and a zero amount stays zero.
C2_SignInvariant ==
  pc = "normalized" =>
    \A i \in Rows :
      /\ df[i].category = prev[i].category
      /\ prev[i].amount = 0 => df[i].amount = 0
      /\ prev[i].amount # 0 =>
           /\ (df[i].amount > 0) <=> (df[i].category \in IncomeSet)
           /\ (df[i].amount < 0) <=> (df[i].category \notin IncomeSet)
           /\ Magnitude(df[i].amount) = Magnitude(prev[i].amount)

C2_Witness ==
  /\ pc = "normalized"
  /\ \E i, j \in Rows :
       /\ prev[i].amount < 0 /\ df[i].amount > 0 /\ df[i].category = "Refund"
       /\ prev[j].amount > 0 /\ df[j].amount < 0

\* C3 as claimed: every output transaction of categorize_transactions has a
\* non-null category that is in the Category Vocabulary, rows that arrive
\* with a category included.
C3_InVocabulary ==
  pc = "categorized" =>
    \A i \in Rows : df[i].category # None /\ df[i].category \in Vocabulary

\* C3 as amended: every output transaction has a non-null category; it is in
\* the Category Vocabulary when the row arrived with an original_category,
\* without a category, or with a category of the vocabulary; a row that
\* arrives with a category and no original_category keeps that category.
C3_Amended ==
  pc = "categorized" =>
    \A i \in Rows :
      /\ df[i].category # None
      /\ (\/ prev[i].original_category # None
          \/ prev[i].category = None
          \/ prev[i].category \in Vocabulary) => df[i].category \in Vocabulary
      /\ (prev[i].original_category = None /\ prev[i].category # None) =>
           df[i].category = prev[i].category

C3_Witness ==
  /\ pc = "categorized"
  /\ \E i, j \in Rows :
       /\ prev[i].original_category = None /\ prev[i].category = "Pets"
       /\ df[i].category = "Pets" /\ "Pets" \notin Vocabulary
       /\ prev[j].original_category = "Bogus" /\ prev[j].category = "Pets"
       /\ df[j].category = "Miscellaneous"

\* The date cells of the model that are complete calendar dates.
FullDates == {"2024-01-15", "2024-02-29"}

\* The file is a CSV carrying the headers of the chosen source's own export,
\* with dates that parse (amounts are numbers in every file of the model).
WellFormed ==
  /\ source \in KnownSources
  /\ detect_file_type(file.name) = "csv"
  /\ file.columns = DOMAIN SourceExport(source)
  /\ file.rows # <<>>
  /\ \A i \in DOMAIN file.rows :
       \E c \in file.columns :
         SourceExport(source)[c] = "date" /\ file.rows[i][c] \in FullDates

\* C4: for a well-formed CSV of a known source the import does not fail, each
\* stage returns one row per data row of the file, and after import,
\* categorize and normalize each row has a category of the vocabulary and an
\* amount whose sign agrees with it.
C4_RoundTrip ==
  WellFormed =>
    /\ pc # "failed"
    /\ pc # "uploaded" => Len(df) = Len(file.rows)
    /\ (pc = "normalized" /\ passes >= 1) =>
         \A i \in Rows : df[i].category \in Vocabulary /\ SignAgrees(df[i])

C4_Witness ==
  /\ WellFormed /\ pc = "normalized" /\ passes = 1 /\ source = "chase"
  /\ Len(df) = 2
  /\ df[1].original_category = "Income & Transfers" /\ df[1].amount > 0
  /\ df[2].original_category = None /\ df[2].category = "Dining" /\ df[2].amount < 0

\* C5: a row with an original_category gets the translation of it, whatever
\* its category and description were: the exact key of the bank-category
\* table, else the first key in table order that occurs in it whatever the
\* case, else Miscellaneous; 'Food & Drink' gives 'Dining'.
C5_Translation ==
  pc = "categorized" =>
    \A i \in Rows :
      prev[i].original_category # None =>
        /\ df[i].category = BankTranslation(prev[i].original_category)
        /\ prev[i].original_category = "Food & Drink" => df[i].category = "Dining"

C5_Witness ==
  /\ pc = "categorized"
  /\ \E i \in Rows :
       /\ prev[i].original_category = "travel & entertainment"
       /\ prev[i].category = "Pets" /\ prev[i].description # None
       /\ df[i].category = "Travel"

\* C6: a row without original_category and category and with a non-empty
\* description gets the first category, in the order of the keyword table,
\* one of whose keywords is a whole word of the lower-cased description.
C6_FirstKeywordCategory ==
  /\ categories[1].category = "Groceries" /\ categories[2].category = "Dining"
  /\ categories[3].category = "Transportation" /\ categories[4].category = "Shopping"
  /\ categories[Len(categories)].category = "Fees & Charges"
  /\ pc = "categorized" =>
       \A i \in Rows :
         (/\ prev[i].original_category = None /\ prev[i].category = None
          /\ prev[i].description \notin {None, ""}) =>
           LET hits == KeywordHits(prev[i].description)
           IN  hits # {} => df[i].category = categories[Least(hits)].category

C6_Witness ==
  /\ pc = "categorized"
  /\ \E i \in Rows :
       /\ prev[i].category = None /\ prev[i].original_category = None
       /\ prev[i].description = "gas-insurance"
       /\ KeywordHits(prev[i].description) = {3, 7, 8, 9}
       /\ df[i].category = "Transportation"

\* C7: a row without original_category and category gets 'Uncategorized'
\* when its description is null or empty and 'Miscellaneous' when no keyword
\* is a whole word of it; 'Starbucks Coffee #123' gives 'Dining' and
\* 'XYZ9382 transfer' gives 'Miscellaneous'.
C7_Fallbacks ==
  pc = "categorized" =>
    \A i \in Rows :
      (prev[i].original_category = None /\ prev[i].category = None) =>
        LET d == prev[i].description
        IN  /\ d \in {None, ""} => df[i].category = "Uncategorized"
            /\ (d \notin {None, ""} /\ KeywordHits(d) = {}) => df[i].category = "Miscellaneous"
            /\ d = "Starbucks Coffee #123" => df[i].category = "Dining"
            /\ d = "XYZ9382 transfer" => df[i].category = "Miscellaneous"

C7_Witness ==
  /\ pc = "categorized"
  /\ \E i \in Rows :
       /\ prev[i].original_category = None /\ prev[i].category = None
       /\ prev[i].description = "" /\ df[i].category = "Uncategorized"

\* C8: the category a row gets depends on that row alone: it is the category
\* the row gets when categorized as a frame of its own, so rows equal in
\* original_category, category and description get equal categories
\* wherever they stand and whatever the other rows are.
C8_RowLocal ==
  pc = "categorized" =>
    /\ \A i \in Rows :
         df[i].category = categorize_transactions(<<prev[i]>>)[1].category
    /\ \A i, j \in Rows :
         (/\ prev[i].original_category = prev[j].original_category
          /\ prev[i].category = prev[j].category
          /\ prev[i].description = prev[j].description) =>
           df[i].category = df[j].category

C8_Witness ==
  /\ pc = "categorized" /\ passes = 1
  /\ \E i, j \in Rows :
       /\ prev[i].original_category = None /\ prev[i].category = "Refund"
       /\ prev[i].description = "Starbucks Coffee #123" /\ df[i].category = "Refund"
       /\ prev[j].original_category # None

\* C9: categorize_transactions keeps the category of a row that has one and
\* has no original_category, and leaves every other column of every row as
\* it was.
C9_Preserves ==
  pc = "categorized" =>
    /\ DOMAIN df = DOMAIN prev
    /\ \A i \in Rows :
         /\ (prev[i].original_category = None /\ prev[i].category # None) =>
              df[i].category = prev[i].category
         /\ df[i] = [prev[i] EXCEPT !.category = df[i].category]

C9_Witness ==
  /\ pc = "categorized" /\ passes = 1
  /\ \A i \in Rows : prev[i].original_category = None
  /\ \E i \in Rows :
       /\ prev[i].category = "Refund" /\ df[i].category = "Refund"
       /\ get_category(prev[i].description) = "Dining"

\* The amount cell of data row i of the file.
RawAmount(i) ==
  file.rows[i][CHOOSE c \in file.columns : c \in {"Amount", "Amount (USD)", "amount"}]

\* C10: import_statement returns every amount negated for chase and
\* wells_fargo and as it is in the file for every other source, and it does
\* so before any categorization.
C10_SourceFlip ==
  pc = "imported" =>
    /\ passes = 0
    /\ \A i \in Rows :
         df[i].amount = IF source \in {"chase", "wells_fargo"} THEN 0 - RawAmount(i)
                                                              ELSE RawAmount(i)

C10_Witness ==
  /\ pc = "imported" /\ source = "wells_fargo"
  /\ \E i \in Rows : RawAmount(i) = 3 /\ df[i].amount = -3

\* The fields every transaction must carry.
RequiredFields == {"date", "description", "amount"}

\* The file is a CSV imported as a registered source.
KnownCsv == source \in KnownSources /\ detect_file_type(file.name) = "csv"

\* No column of the file is one the chosen source's export holds field f in,
\* nor is one named f itself.
Unbound(f) ==
  /\ f \notin file.columns
  /\ ~\E c \in file.columns \cap DOMAIN SourceExport(source) : SourceExport(source)[c] = f

\* C11: for each required field f (date, description, amount), when no
\* column of the file is bound to f by the chosen source's mapping,
\* import_statement fails with an error that identifies f and lists the
\* header names of the file; it never returns a batch with f filled with
\* nulls.
C11_MissingFieldFails ==
  (pc # "uploaded" /\ KnownCsv) =>
    \A f \in RequiredFields :
      Unbound(f) =>
        /\ pc = "failed"
        /\ contains(error, f)
        /\ \A c \in file.columns : contains(error, c)

\* C12: importing a CSV whose columns are exactly Foo, Bar and Baz, as any
\* known source, raises an error that names 'date', and returns no batch.
C12_NoDateColumn ==
  (pc # "uploaded" /\ KnownCsv /\ file.columns = {"Foo", "Bar", "Baz"}) =>
    /\ pc = "failed"
    /\ df = <<>>
    /\ contains(error, "'date'")

C12_Witness ==
  /\ pc = "failed" /\ source = "bank_of_america"
  /\ detect_file_type(file.name) = "csv"
  /\ file.columns = {"Foo", "Bar", "Baz"} /\ file.rows # <<>>
  /\ error = "Error importing file: 'date'"

\* C13: when the file's date and description columns are bound by the
\* chosen source and its amounts are in a column named 'Transaction Amount',
\* which the source does not know, the import succeeds and the amounts of
\* the batch are that column's values.
C13_GenericFallback ==
  (/\ pc # "uploaded" /\ KnownCsv
   /\ file.columns = {"Date", "Description", "Transaction Amount"}
   /\ ~Unbound("date") /\ ~Unbound("description")) =>
    /\ pc # "failed"
    /\ Len(df) = Len(file.rows)
    /\ \A i \in Rows :
         Magnitude(df[i].amount) = Magnitude(file.rows[i]["Transaction Amount"])

\* The date cell of data row i of a file that carries the chosen source's
\* own headers.
RawDate(i) ==
  file.rows[i][CHOOSE c \in file.columns : SourceExport(source)[c] = "date"]

\* C14: a date without a year takes the year found in the file name: the
\* value '03/15' in a file named '2023_statement.csv', with no other hint of
\* a year, is imported as 15 March 2023.
C14_YearFromFileName ==
  (/\ pc # "uploaded" /\ KnownCsv
   /\ file.name = "2023_statement.csv"
   /\ file.columns = DOMAIN SourceExport(source)
   /\ \A i \in DOMAIN file.rows : RawDate(i) = "03/15") =>
    /\ pc # "failed"
    /\ Len(df) = Len(file.rows)
    /\ \A i \in Rows : df[i].date = [year |-> 2023, month |-> 3, day |-> 15]

\* C15: when some rows of a statement have dates that cannot be parsed, the
\* import does not fail: the batch holds the other rows, one for each.
C15_DropsUnparsedRows ==
  (/\ pc # "uploaded" /\ KnownCsv
   /\ file.columns = DOMAIN SourceExport(source)
   /\ \E i \in DOMAIN file.rows : RawDate(i) = "not a date") =>
    /\ pc # "failed"
    /\ Len(df) = Cardinality({i \in DOMAIN file.rows : RawDate(i) \in FullDates})

\* text ends with suffix, letter case ignored.
EndsWithIgnoringCase(text, suffix) ==
  /\ Len(text) >= Len(suffix)
  /\ \A k \in 1..Len(suffix) :
       LowerChar(CharAt(text, Len(text) - Len(suffix) + k)) = CharAt(suffix, k)

\* The file type the extension of a name stands for.
ExtensionType(name) ==
  IF EndsWithIgnoringCase(name, ".csv") THEN "csv"
  ELSE IF EndsWithIgnoringCase(name, ".pdf") THEN "pdf"
  ELSE IF EndsWithIgnoringCase(name, ".xlsx") THEN "xlsx"
  ELSE IF EndsWithIgnoringCase(name, ".xls") THEN "xls"
  ELSE "unknown"

\* C16: detect_file_type depends on the extension of the file name alone,
\* letter case ignored: .csv gives csv, .pdf gives pdf, .xlsx gives xlsx,
\* .xls gives xls, and any other extension or none gives unknown.
C16_TypeOfExtension ==
  file_type # None => file_type = ExtensionType(file.name)

\* No signature rule matches the file: its type is neither CSV nor PDF, it
\* cannot be read, or its header (its text) holds none of the substrings
\* the rules look for.
NoSignature ==
  LET type == ExtensionType(file.name)
      header_str == join(" ", file.header)
  IN  \/ type \notin {"csv", "pdf"}
      \/ type = "csv" /\ ~file.readable
      \/ type = "pdf" /\ file.text = None
      \/ /\ type = "csv"
         /\ \A k \in {"wells", "apple", "schwab"} : ~OccursIgnoringCase(k, header_str)
         /\ ~(OccursIgnoringCase("transaction date", header_str)
                /\ OccursIgnoringCase("post date", header_str))
         /\ ~(OccursIgnoringCase("posted date", header_str)
                /\ OccursIgnoringCase("payee", header_str))
      \/ /\ type = "pdf"
         /\ \A k \in {"wells fargo", "chase", "bank of america", "apple", "schwab"} :
              ~OccursIgnoringCase(k, file.text)

\* C17: detect_source_from_header returns one of the five known sources or
\* None, and None whenever no signature rule matches: a CSV header matching
\* no rule, a PDF text naming no bank, a file of unknown type, a file that
\* cannot be read.
C17_NoneWithoutSignature ==
  pc # "uploaded" =>
    LET detected == detect_source_from_header(TempFile)
    IN  /\ detected \in KnownSources \cup {None}
        /\ NoSignature => detected = None
        /\ pc = "detected" => detected_source = detected

C17_Witness ==
  /\ pc = "detected" /\ detected_source = None
  /\ file.name = "Statement.CSV" /\ file.readable
  /\ file.header = <<"Foo", "Bar", "Baz">>

\* C18: for a CSV header the rules of two substrings win over the rules of
\* one keyword: a header with 'transaction date' and 'post date' is
\* detected as chase and one with 'posted date' and 'payee' as
\* bank_of_america, also when it holds 'wells', 'apple' or 'schwab'.
C18_SpecificRulesWin ==
  (pc = "detected" /\ ExtensionType(file.name) = "csv" /\ file.readable) =>
    LET header_str == join(" ", file.header)
    IN  /\ (OccursIgnoringCase("transaction date", header_str)
              /\ OccursIgnoringCase("post date", header_str)) =>
             detected_source = "chase"
        /\ (OccursIgnoringCase("posted date", header_str)
              /\ OccursIgnoringCase("payee", header_str)) =>
             detected_source = "bank_of_america"

\* C19: import_statement given a source that is not registered fails with
\* an unsupported-source error and returns no batch, for a CSV and for a
\* PDF.
C19_UnsupportedSource ==
  (/\ pc # "uploaded" /\ page = None
   /\ source \notin KnownSources
   /\ ExtensionType(file.name) \in {"csv", "pdf"}) =>
    /\ pc = "failed"
    /\ df = <<>>
    /\ contains(error, "Unsupported source")

\* C20: when an upload-handling run ends, the temporary file it wrote no
\* longer exists, whichever way the run ends.
C20_TempFileRemoved ==
  pc = "ended" => ~temp_file

\* The ids of the rows of a table.
Ids(table) == {table[k].id : k \in DOMAIN table}

\* The columns of a row besides its id.
Content(row) == [c \in transaction_columns |-> row[c]]

\* C21: save_to_database is a pure append: when it succeeds the table holds
\* every row it held, unchanged, followed by one new row for each row of
\* the frame, with that row's columns and an id no stored row has (an id
\* the frame carries is ignored); nothing is merged, so a frame saved twice
\* is stored twice.
C21_PureAppend ==
  [][(call'.op = "save_to_database" /\ result' = TRUE) =>
       LET frame == call'.df
           n == Len(transactions)
       IN  /\ Len(transactions') = n + Len(frame)
           /\ \A k \in 1..n : transactions'[k] = transactions[k]
           /\ \A k \in 1..Len(frame) :
                /\ Content(transactions'[n + k]) = Content(frame[k])
                /\ transactions'[n + k].id \notin Ids(transactions)
           /\ Cardinality(Ids(transactions')) = Len(transactions')]_vars

C21_Witness ==
  /\ call.op = "save_to_database"
  /\ call.df = <<Transaction("Payroll deposit", 3, "Income") @@ [id |-> 1]>>
  /\ result = TRUE
  /\ Len(transactions) = 3
  /\ \A k \in 1..3 : Content(transactions[k]) = Transaction("Payroll deposit", 3, "Income")
  /\ Ids(transactions) # {1, 2, 3}

\* C23: when delete_transaction(id, reindex=True) returns True the table
\* holds the rows it held less the one with that id, in their previous id
\* order, with ids 1..n and every other column unchanged.
C23_Reindexed ==
  [][(/\ call'.op = "delete_transaction" /\ call'.reindex
      /\ result' = TRUE) =>
       LET kept == SelectSeq(transactions, LAMBDA row : row.id # call'.transaction_id)
       IN  /\ Len(transactions') = Len(kept)
           /\ \A k \in DOMAIN kept :
                /\ transactions'[k].id = k
                /\ Content(transactions'[k]) = Content(kept[k])]_vars

C23_Witness ==
  /\ call.op = "delete_transaction"
  /\ call.transaction_id = 4
  /\ call.reindex
  /\ result = TRUE
  /\ Len(transactions) = 2
  /\ Content(transactions[1]) = Transaction("Starbucks Coffee #123", -5, "Dining")
  /\ Content(transactions[2]) = Transaction("Payroll deposit", 3, "Income")
  /\ Ids(transactions) = {1, 2}

\* The frame with every amount negated.
Negated(frame) == [i \in DOMAIN frame |-> [frame[i] EXCEPT !.amount = 0 - frame[i].amount]]

\* C25: normalize_transaction_signs gives for a batch with every amount
\* negated what it gives for the batch, and applied twice what it gives
\* applied once: the normalized batch does not depend on whether the import
\* flipped the source's amounts.
C25_AbsorbsFlip ==
  /\ pc \in {"imported", "categorized"} =>
       normalize_transaction_signs(Negated(df)) = normalize_transaction_signs(df)
  /\ pc = "normalized" =>
       /\ df = normalize_transaction_signs(Negated(prev))
       /\ normalize_transaction_signs(df) = df

C25_Witness ==
  /\ pc = "normalized" /\ source = "chase" /\ passes >= 1
  /\ \E i, j \in Rows :
       /\ RawAmount(i) = 3 /\ prev[i].amount = -3 /\ df[i].amount = 3
       /\ RawAmount(j) = -5 /\ prev[j].amount = 5 /\ df[j].amount = -5

\* C26: a row whose original_category is a key of the bank-category table
\* up to letter case gets the category the table gives that key.
C26_CaseInsensitive ==
  pc = "categorized" =>
    \A i \in Rows :
      prev[i].original_category # None =>
        LET text == lower(prev[i].original_category)
        IN  \A k \in 1..Len(mapping) :
              lower(mapping[k][1]) = text => df[i].category = mapping[k][2]

\* C27: a CSV whose header holds exactly the column names that
\* import_statement renames for a source is detected as that source.
C27_AliasHeaderDetected ==
  (pc = "detected" /\ ExtensionType(file.name) = "csv" /\ file.readable) =>
    \A s \in KnownSources :
      file.columns = DOMAIN rename_columns(s) => detected_source = s

\* The names of a list.
Names(list) == {list[k] : k \in DOMAIN list}

\* Text a comes before text b in code-point order: at the first place where
\* they differ a has ended or holds the lesser character.
Before(a, b) ==
  \E k \in 1..Len(b) :
    /\ k - 1 <= Len(a)
    /\ SubSeq(a, 1, k - 1) = SubSeq(b, 1, k - 1)
    /\ \/ k > Len(a)
       \/ \E n \in 1..Len(code_points) :
            /\ CharAt(b, k) = CharAt(code_points, n)
            /\ \E m \in 1..(n - 1) : CharAt(a, k) = CharAt(code_points, m)

\* C22: get_category_list returns exactly the 19 standard categories and
\* the stored custom categories, no name twice, in ascending order.
C22_SortedUnion ==
  LET all_categories == get_category_list(custom_categories)
  IN  /\ Names(all_categories) = standard_categories \cup custom_categories
      /\ \A j, k \in DOMAIN all_categories :
           j < k => Before(all_categories[j], all_categories[k])

C22_Witness ==
  /\ custom_categories = {"Pets", "Zoo", "pets", "Income"}
  /\ LET all_categories == get_category_list(custom_categories)
     IN  /\ Len(all_categories) = 22
         /\ all_categories[21] = "Zoo" /\ all_categories[22] = "pets"

\* C30: after any sequence of adds and deletes get_category_list holds every
\* standard category, and a name that is not standard exactly when an add
\* stored it and no later delete named it; add_custom_category returns True
\* only when it stored a new name, and False for an empty or blank name and
\* for a name already stored.
C30_AddDelete ==
  /\ [](LET all_categories == Names(get_category_list(custom_categories))
        IN  /\ standard_categories \subseteq all_categories
            /\ \A name \in all_categories \cup live \cup TypedNames :
                 name \notin standard_categories =>
                   (name \in all_categories <=> name \in live))
  /\ [][call'.op = "add_custom_category" =>
          LET name == call'.category_name
          IN  /\ result' = TRUE =>
                   /\ custom_categories' # custom_categories
                   /\ custom_categories \subseteq custom_categories'
                   /\ Cardinality(custom_categories') = Cardinality(custom_categories) + 1
              /\ (name \in {"", " "} \/ name \in custom_categories) => result' = FALSE
              /\ result' = FALSE => custom_categories' = custom_categories]_vars

C30_Witness ==
  /\ call.op = "add_custom_category" /\ call.category_name = " Pets "
  /\ result = FALSE
  /\ custom_categories = {"Pets", "Zoo"}
  /\ live = {"Pets", "Zoo"}

\* The rows of table account_balances for an account.
RowsOf(account_name) ==
  {k \in DOMAIN account_balances : account_balances[k].account_name = account_name}

\* C29: after any sequence of update_account_balance and delete_account
\* calls the table holds at most one row for an account; an account updated
\* and not deleted since has the balance of its most recent update, and an
\* account deleted and not updated since (or never updated) has no row.
C29_OneRowPerAccount ==
  \A account_name \in AccountNames :
    /\ Cardinality(RowsOf(account_name)) <= 1
    /\ account_name \in DOMAIN last_balance =>
         \E k \in RowsOf(account_name) :
           account_balances[k].balance = last_balance[account_name]
    /\ account_name \notin DOMAIN last_balance => RowsOf(account_name) = {}

C29_Witness ==
  /\ call.op = "update_account_balance"
  /\ call.account_name = "Chase" /\ call.balance = -250
  /\ account_balances = << [account_name |-> "Chase", balance |-> -250],
                           [account_name |-> "Schwab", balance |-> 100] >>
  /\ DOMAIN last_balance = {"Chase", "Schwab"}

\* C24: the Delete Category tab deletes a custom category through the plain
\* confirmation only when no stored transaction uses it, and otherwise
\* after its transactions were moved to Miscellaneous: no stored
\* transaction carries a custom category that was deleted.
C24_NoOrphanedCategory ==
  \A k \in DOMAIN transactions :
    transactions[k].category \in ManagedNames =>
      transactions[k].category \in custom_categories

\* The headers of the statement's sections that hold a line with the
\* description.
SectionsHolding(description) ==
  {file.sections[k].header : k \in {j \in DOMAIN file.sections :
      \E n \in DOMAIN file.sections[j].lines :
        file.sections[j].lines[n].description = description}}

\* The statement is parsed by section: a section before the first FEES
\* CHARGED or INTEREST CHARGED holds a line.
ParsedBySection == chase_sections(account_activity(file.sections), 1) # <<>>

=============================================================================
